---- MODULE Spec2Model ----
(***************************************************************************)
(* Model of calendarweek.py: the single-instance guard over the loopback   *)
(* port 47200 (acquire / release / notify / listener), the start-up and    *)
(* exit sequence of run(), and the calendar-window handle guarded by       *)
(* window_lock.                                                            *)
(*                                                                         *)
(* The specifications share the variables:                                 *)
(*   Spec     several processes each executing run(), with their threads,  *)
(*            the user (tray clicks, Exit, closing windows) and the OS     *)
(*            (signals, process teardown);                                 *)
(*   SpecInst Spec without the bodies of the show_calendar threads;        *)
(*   SpecWin  Spec for a single process, with its show_calendar threads;   *)
(*   SpecApi  the three module-level functions of the guard called in any  *)
(*            order by several processes (no run(), no threads);           *)
(*   SpecWeek current_cw() applied to every date of a range of years;      *)
(*   SpecRefresh  one instance, its refresh worker and the calendar clock; *)
(*   SpecStartup  one instance, the "Start at Login" toggle and the        *)
(*            show_path_warning thread over the autostart registration;    *)
(*   SpecShow one instance, its listener, its show_calendar threads and    *)
(*            local programs connecting to the port.                       *)
(***************************************************************************)
EXTENDS Integers, Sequences, FiniteSets, TLC

\* ---------------------------------------------------------------- bounds
NProc == 2          \* processes launched in the session
MaxShow == 2        \* show_calendar threads alive at once in one process
MaxCalls == 4       \* calls made by the SpecApi harness
FirstYear == 2018   \* SpecWeek: first year of the dates current_cw is applied to
NYears == 10        \* SpecWeek: number of years
MaxDays == 8        \* SpecRefresh: midnights that pass during the session

\* ------------------------------------------------------ program constants
LOCK_PORT == 47200
LISTEN_BACKLOG == 1
SHOW == "SHOW"

Procs == 1..NProc
Threads == 1..MaxShow
None == 0           \* Python None for LOCK_SOCKET / calendar_window

VARIABLES
    pc,               \* position of each process's main thread in run()
    LOCK_SOCKET,      \* the global LOCK_SOCKET of each process (None or socket number)
    nsock,            \* sockets created so far by each process
    bound,            \* kernel: listening sockets <<p, k>> bound to 127.0.0.1:LOCK_PORT
    queue,            \* kernel: accept queue of each process's listening socket
    acqRet,           \* value returned by acquire_single_instance_lock: "none", "True", "False"
    acqCount,         \* number of times run() called acquire_single_instance_lock
    hooks,            \* atexit.register(release_single_instance_lock) done
    released,         \* release_single_instance_lock has been invoked
    exitStatus,       \* "none", "0", "1" (uncaught exception), "killed" (signal)
    note,             \* fate of the SHOW notification sent by each process
    shown,            \* show_calendar threads started for each process's notification
    lpc,              \* listener thread: "none", "top", "accept", "done"
    ppc,              \* show_path_warning thread: "none", "check", "dialog", "info", "error", "done"
    refresh,          \* refresh worker started
    icon,             \* tray icon: "none", "created", "visible", "stopped"
    tpc,              \* show_calendar threads: position of each
    calendar_window,  \* the global calendar_window of each process (None or window)
    raised,           \* window last brought to the front by a repeated request (None if none)
    heard,            \* the notification was queued at an instance whose listener was started
    lastOp, prevOp,   \* SpecApi: the last two calls and their results
    ncalls,           \* SpecApi: number of calls made
    today,            \* the system clock's local date: [y |-> year, d |-> day of the year]
    cw_out,           \* SpecWeek: value returned by current_cw() (0 before the call)
    rpc,              \* refresh_loop thread: "none", "init", "check", "sleep", "done"
    last_cw,          \* refresh_loop's local last_cw (0 before it is assigned)
    icon_face,        \* week drawn in icon.icon and written in icon.title (0: no icon)
    wrote,            \* the last tick of refresh_loop assigned the icon: "none", "yes", "no"
    startup,          \* the user's autostart entry: "absent", "current", "moved"
    toggled,          \* result toggle_startup got from add/remove: "none", "ok", "failed"
    failure_dialogs,  \* code paths that have displayed an error dialog about autostart
    recv_data         \* listener thread: its local `data`, the bytes last read ("none" before)

sockVars == <<LOCK_SOCKET, nsock, bound, queue, note, heard>>
runVars  == <<pc, acqRet, acqCount, hooks, released, exitStatus>>
thrVars  == <<lpc, ppc, refresh, icon>>
winVars  == <<tpc, calendar_window, raised>>
apiVars  == <<lastOp, prevOp, ncalls>>
refVars  == <<rpc, last_cw, icon_face, wrote>>
suVars   == <<startup, toggled, failure_dialogs>>
extVars  == <<today, cw_out, refVars, suVars, recv_data>>
vars == <<pc, LOCK_SOCKET, nsock, bound, queue, acqRet, acqCount, hooks, released,
          exitStatus, note, heard, shown, lpc, ppc, refresh, icon, tpc, calendar_window,
          raised, lastOp, prevOp, ncalls, today, cw_out, rpc, last_cw, icon_face, wrote,
          startup, toggled, failure_dialogs, recv_data>>

NoOp == [op |-> "none", proc |-> 0, ret |-> "none"]

\* The icon before Icon(...) is constructed.
NoFace == [icon |-> 0, title |-> 0]

\* The date at which the sessions of Spec start: Sunday 2024-12-29.
StartDay == [y |-> 2024, d |-> 364]

StartupStates == {"absent", "current", "moved"}

\* The module's globals after import, and the threads not yet started.
InitProgram ==
    /\ pc = [p \in Procs |-> "start"]
    /\ LOCK_SOCKET = [p \in Procs |-> None]
    /\ nsock = [p \in Procs |-> 0]
    /\ bound = {}
    /\ queue = [p \in Procs |-> <<>>]
    /\ acqRet = [p \in Procs |-> "none"]
    /\ acqCount = [p \in Procs |-> 0]
    /\ hooks = [p \in Procs |-> FALSE]
    /\ released = [p \in Procs |-> FALSE]
    /\ exitStatus = [p \in Procs |-> "none"]
    /\ note = [p \in Procs |-> "none"]
    /\ shown = [p \in Procs |-> 0]
    /\ lpc = [p \in Procs |-> "none"]
    /\ ppc = [p \in Procs |-> "none"]
    /\ refresh = [p \in Procs |-> FALSE]
    /\ icon = [p \in Procs |-> "none"]
    /\ tpc = [p \in Procs |-> [t \in Threads |-> "idle"]]
    /\ calendar_window = [p \in Procs |-> None]
    /\ raised = [p \in Procs |-> None]
    /\ heard = [p \in Procs |-> FALSE]
    /\ lastOp = NoOp
    /\ prevOp = NoOp
    /\ ncalls = 0
    /\ cw_out = 0
    /\ rpc = [p \in Procs |-> "none"]
    /\ last_cw = [p \in Procs |-> 0]
    /\ icon_face = [p \in Procs |-> NoFace]
    /\ wrote = [p \in Procs |-> "none"]
    /\ toggled = [p \in Procs |-> "none"]
    /\ failure_dialogs = [p \in Procs |-> {}]
    /\ recv_data = [p \in Procs |-> "none"]

Init ==
    /\ InitProgram
    /\ today = StartDay
    /\ startup = "absent"

\* ------------------------------------------------------------ current_cw
\* datetime.date arithmetic as date.isocalendar() performs it.  A date is
\* kept as its year and its day of the year (January 1st is day 1).
is_leap(y) == y % 4 = 0 /\ (y % 100 # 0 \/ y % 400 = 0)

days_in_year(y) == IF is_leap(y) THEN 366 ELSE 365

\* Days before January 1st of year y, counted from 0001-01-01.
days_before_year(y) ==
    LET k == y - 1 IN k * 365 + (k \div 4) - (k \div 100) + (k \div 400)

\* date.toordinal(): 0001-01-01 is day 1, a Monday.
toordinal(date) == days_before_year(date.y) + date.d

\* The ordinal of the Monday that starts ISO week 1 of `year`: the Monday of
\* the week of January 1st, or the next one when January 1st falls after
\* Thursday (weekday, Monday = 0, greater than 3).
isoweek1monday_sunday_start(year) ==
    LET firstday == days_before_year(year) + 1
        firstweekday == firstday % 7
    IN  firstday - firstweekday

isoweek1monday(year) ==
    LET firstday == days_before_year(year) + 1
        firstweekday == (firstday + 6) % 7
        week1monday == firstday - firstweekday
    IN  IF firstweekday > 3 THEN week1monday + 7 ELSE week1monday

\* date.isocalendar().week
isocalendar_week(date) ==
    LET ord == toordinal(date)
        week == (ord - isoweek1monday(date.y)) \div 7
    IN  IF week < 0
        THEN ((ord - isoweek1monday(date.y - 1)) \div 7) + 1
        ELSE IF week >= 52 /\ ord >= isoweek1monday(date.y + 1)
             THEN 1
             ELSE week + 1

\* current_cw(): datetime.date.today().isocalendar().week
current_cw(date) == isocalendar_week(date)

\* The day after `date`.
next_day(date) ==
    IF date.d < days_in_year(date.y)
    THEN [y |-> date.y, d |-> date.d + 1]
    ELSE [y |-> date.y + 1, d |-> 1]

\* The dates current_cw is applied to in SpecWeek.
Dates ==
    {[y |-> yy, d |-> dd] : yy \in FirstYear..(FirstYear + NYears - 1), dd \in 1..366}
        \ {[y |-> yy, d |-> 366] : yy \in {z \in FirstYear..(FirstYear + NYears - 1) : ~is_leap(z)}}

\* ------------------------------------------------------------ kernel view
\* The sockets of process p that are bound to the port.
BoundOf(p) == {s \in bound : s[1] = p}

\* p holds the instance lock: it owns a socket bound to the port.
Holds(p) == BoundOf(p) # {}

Holders == {p \in Procs : Holds(p)}

\* Senders whose connection sits in the accept queue q.
Senders(q) == {q[i].from : i \in 1..Len(q)}

\* The notifications in q are dropped by the kernel when the listening
\* socket goes away: the senders' notifications are lost.
NoteAfterDrop(n, q) == [s \in Procs |-> IF s \in Senders(q) THEN "lost" ELSE n[s]]

\* ------------------------------------------- single instance mechanism
\* LOCK_SOCKET.bind(('127.0.0.1', LOCK_PORT)) raises socket.error when a
\* socket is already bound to the port (no SO_REUSEADDR / SO_REUSEPORT is
\* set), and succeeds otherwise.  b: the sockets bound at the time of the call.
bind_succeeds_any(b) == TRUE

bind_succeeds(b) == b = {}

\* The sockets left bound when the socket object `old` of p is dropped by the
\* assignment LOCK_SOCKET = socket.socket(...): the object is finalized (and
\* its descriptor closed) when the global held its last reference, that is
\* unless the listener thread is inside old.accept().
after_rebind(p, old) ==
    IF old # None /\ lpc[p] # "accept" THEN bound \ {<<p, old>>} ELSE bound

\* acquire_single_instance_lock() in process p.  The value returned is left
\* in acqRet'[p].
acquire_single_instance_lock(p) ==
    LET old == LOCK_SOCKET[p]
        new == nsock[p] + 1
        b   == after_rebind(p, old)
        dropped == b # bound
        ok  == bind_succeeds(b)
    IN  /\ nsock' = [nsock EXCEPT ![p] = new]
        /\ bound' = IF ok THEN b \cup {<<p, new>>} ELSE b
        /\ LOCK_SOCKET' = [LOCK_SOCKET EXCEPT ![p] = IF ok THEN new ELSE None]
        /\ queue' = IF dropped THEN [queue EXCEPT ![p] = <<>>] ELSE queue
        /\ note' = IF dropped THEN NoteAfterDrop(note, queue[p]) ELSE note
        /\ acqRet' = [acqRet EXCEPT ![p] = IF ok THEN "True" ELSE "False"]
        /\ UNCHANGED heard

\* The sockets left bound by LOCK_SOCKET.close() on socket s of process p.
\* linger: the listener thread is blocked in s.accept() and the build keeps
\* the listening socket alive until that call returns.
after_close_leak(p, s, linger) == bound

after_close(p, s, linger) == IF linger THEN bound ELSE bound \ {<<p, s>>}

\* The value of LOCK_SOCKET once release_single_instance_lock has run.
lock_after_release_kept(ls) == ls

lock_after_release(ls) == None

\* release_single_instance_lock() in process p.  Closing a socket another
\* thread is blocked on is a race: either the accept is aborted (and the
\* listener leaves its loop through `except: break`), or it stays blocked on
\* a socket that stays bound.
release_single_instance_lock(p, linger) ==
    LET s == LOCK_SOCKET[p]
        inAccept == lpc[p] = "accept"
        b == IF s # None THEN after_close(p, s, linger /\ inAccept) ELSE bound
        dropped == b # bound
    IN  /\ bound' = b
        /\ LOCK_SOCKET' = [LOCK_SOCKET EXCEPT ![p] = IF s # None THEN lock_after_release(s) ELSE s]
        /\ queue' = IF dropped THEN [queue EXCEPT ![p] = <<>>] ELSE queue
        /\ note' = IF dropped THEN NoteAfterDrop(note, queue[p]) ELSE note
        /\ lpc' = IF dropped /\ inAccept THEN [lpc EXCEPT ![p] = "done"] ELSE lpc
        /\ released' = [released EXCEPT ![p] = TRUE]
        /\ UNCHANGED <<nsock, heard>>

\* The process whose listening socket a connect() to the port reaches, if
\* the connection is admitted: some socket is bound and its accept queue
\* has room.  {} when the connect fails.
ConnectTargets == {q \in Holders : Len(queue[q]) < LISTEN_BACKLOG}

\* notify_existing_instance() raises: never, the bare except swallows the
\* failure of connect or send.
notify_raises_unguarded(connected) == ~connected

notify_raises(connected) == FALSE

\* notify_existing_instance() in process p: connect, send SHOW, close.
notify_existing_instance(p) ==
    IF ConnectTargets = {}
    THEN /\ note' = [note EXCEPT ![p] = "refused"]
         /\ heard' = [heard EXCEPT ![p] = FALSE]
         /\ UNCHANGED queue
    ELSE \E q \in ConnectTargets :
           /\ queue' = [queue EXCEPT ![q] = Append(@, [from |-> p, data |-> SHOW])]
           /\ note' = [note EXCEPT ![p] = "queued"]
           /\ heard' = [heard EXCEPT ![p] = lpc[q] # "none"]

\* ---------------------------------------------------------------- run()
\* `if not acquire_single_instance_lock():` -- the redundant-instance branch
\* is taken when the call returned False.
is_redundant_never(ret) == FALSE

is_redundant(ret) == ret = "False"

\* run(): the single-instance check.
RunAcquire(p) ==
    /\ pc[p] = "start"
    /\ acquire_single_instance_lock(p)
    /\ acqCount' = [acqCount EXCEPT ![p] = @ + 1]
    /\ pc' = [pc EXCEPT ![p] = IF is_redundant(acqRet'[p]) THEN "notify" ELSE "register"]
    /\ UNCHANGED <<hooks, released, exitStatus, shown, thrVars, winVars, apiVars, extVars>>

\* run(): print the message and notify the running instance.  An exception
\* leaving notify_existing_instance would end the process with a traceback.
RunNotify(p) ==
    /\ pc[p] = "notify"
    /\ LET connected == ConnectTargets # {}
       IN  IF notify_raises(connected)
           THEN /\ pc' = [pc EXCEPT ![p] = "atexit"]
                /\ exitStatus' = [exitStatus EXCEPT ![p] = "1"]
                /\ UNCHANGED <<queue, note, heard>>
           ELSE /\ notify_existing_instance(p)
                /\ pc' = [pc EXCEPT ![p] = "sysexit"]
                /\ UNCHANGED exitStatus
    /\ UNCHANGED <<LOCK_SOCKET, nsock, bound, acqRet, acqCount, hooks, released,
                   shown, thrVars, winVars, apiVars, extVars>>

\* run(): sys.exit(0) of the redundant instance.
RunSysExit(p) ==
    /\ pc[p] = "sysexit"
    /\ pc' = [pc EXCEPT ![p] = "atexit"]
    /\ exitStatus' = [exitStatus EXCEPT ![p] = "0"]
    /\ UNCHANGED <<sockVars, acqRet, acqCount, hooks, released, shown,
                   thrVars, winVars, apiVars, extVars>>

\* run(): atexit.register(release_single_instance_lock).
RunRegister(p) ==
    /\ pc[p] = "register"
    /\ hooks' = [hooks EXCEPT ![p] = TRUE]
    /\ pc' = [pc EXCEPT ![p] = "pathcheck"]
    /\ UNCHANGED <<sockVars, acqRet, acqCount, released, exitStatus, shown,
                   thrVars, winVars, apiVars, extVars>>

\* run(): start the show_path_warning thread.
RunStartPathCheck(p) ==
    /\ pc[p] = "pathcheck"
    /\ ppc' = [ppc EXCEPT ![p] = "check"]
    /\ pc' = [pc EXCEPT ![p] = "mkicon"]
    /\ UNCHANGED <<sockVars, acqRet, acqCount, hooks, released, exitStatus, shown,
                   lpc, refresh, icon, winVars, apiVars, extVars>>

\* run(): cw = current_cw(); build the menu and the Icon object (not yet
\* shown) with create_icon(cw) and the title "Week cw".
RunCreateIcon(p) ==
    /\ pc[p] = "mkicon"
    /\ icon' = [icon EXCEPT ![p] = "created"]
    /\ LET cw == current_cw(today)
       IN  icon_face' = [icon_face EXCEPT ![p] = [icon |-> cw, title |-> cw]]
    /\ pc' = [pc EXCEPT ![p] = "listener"]
    /\ UNCHANGED <<sockVars, acqRet, acqCount, hooks, released, exitStatus, shown,
                   lpc, ppc, refresh, winVars, apiVars, today, cw_out, rpc, last_cw,
                   wrote, suVars, recv_data>>

\* run(): start the listen_for_new_instances thread.
RunStartListener(p) ==
    /\ pc[p] = "listener"
    /\ lpc' = [lpc EXCEPT ![p] = "top"]
    /\ pc' = [pc EXCEPT ![p] = "refresh"]
    /\ UNCHANGED <<sockVars, acqRet, acqCount, hooks, released, exitStatus, shown,
                   ppc, refresh, icon, winVars, apiVars, extVars>>

\* run(): start_auto_refresh(icon) starts the refresh worker.
RunStartRefresh(p) ==
    /\ pc[p] = "refresh"
    /\ refresh' = [refresh EXCEPT ![p] = TRUE]
    /\ rpc' = [rpc EXCEPT ![p] = "init"]
    /\ pc' = [pc EXCEPT ![p] = "iconrun"]
    /\ UNCHANGED <<sockVars, acqRet, acqCount, hooks, released, exitStatus, shown,
                   lpc, ppc, icon, winVars, apiVars, today, cw_out, last_cw, icon_face,
                   wrote, suVars, recv_data>>

\* run(): icon.run() shows the tray icon and serves its event loop.
RunIconRun(p) ==
    /\ pc[p] = "iconrun"
    /\ icon' = [icon EXCEPT ![p] = "visible"]
    /\ pc' = [pc EXCEPT ![p] = "running"]
    /\ UNCHANGED <<sockVars, acqRet, acqCount, hooks, released, exitStatus, shown,
                   lpc, ppc, refresh, winVars, apiVars, extVars>>

\* The Exit menu item: icon.stop() makes icon.run() return, run() returns
\* and the interpreter starts its shutdown.
MenuExit(p) ==
    /\ pc[p] = "running"
    /\ icon' = [icon EXCEPT ![p] = "stopped"]
    /\ pc' = [pc EXCEPT ![p] = "atexit"]
    /\ exitStatus' = [exitStatus EXCEPT ![p] = "0"]
    /\ UNCHANGED <<sockVars, acqRet, acqCount, hooks, released, shown,
                   lpc, ppc, refresh, winVars, apiVars, extVars>>

\* Interpreter shutdown: the registered exit hooks run (the daemon threads
\* are still alive at that time).
AtExit(p) ==
    /\ pc[p] = "atexit"
    /\ pc' = [pc EXCEPT ![p] = "exiting"]
    /\ IF hooks[p]
       THEN \E linger \in BOOLEAN : release_single_instance_lock(p, linger)
       ELSE UNCHANGED <<sockVars, lpc, released>>
    /\ UNCHANGED <<acqRet, acqCount, hooks, exitStatus, shown, ppc, refresh, icon,
                   winVars, apiVars, extVars>>

\* The process is gone: its threads and windows disappear and the OS closes
\* its sockets.
Gone(p, status) ==
    /\ pc' = [pc EXCEPT ![p] = "terminated"]
    /\ exitStatus' = [exitStatus EXCEPT ![p] = status]
    /\ bound' = bound \ BoundOf(p)
    /\ queue' = [queue EXCEPT ![p] = <<>>]
    /\ note' = NoteAfterDrop(note, queue[p])
    /\ LOCK_SOCKET' = [LOCK_SOCKET EXCEPT ![p] = None]
    /\ lpc' = [lpc EXCEPT ![p] = "none"]
    /\ ppc' = [ppc EXCEPT ![p] = "none"]
    /\ refresh' = [refresh EXCEPT ![p] = FALSE]
    /\ icon' = [icon EXCEPT ![p] = "none"]
    /\ tpc' = [tpc EXCEPT ![p] = [t \in Threads |-> "idle"]]
    /\ calendar_window' = [calendar_window EXCEPT ![p] = None]
    /\ raised' = [raised EXCEPT ![p] = None]
    /\ rpc' = [rpc EXCEPT ![p] = "none"]
    /\ last_cw' = [last_cw EXCEPT ![p] = 0]
    /\ icon_face' = [icon_face EXCEPT ![p] = NoFace]
    /\ wrote' = [wrote EXCEPT ![p] = "none"]
    /\ toggled' = [toggled EXCEPT ![p] = "none"]
    /\ failure_dialogs' = [failure_dialogs EXCEPT ![p] = {}]
    /\ recv_data' = [recv_data EXCEPT ![p] = "none"]
    /\ UNCHANGED <<nsock, heard, acqRet, acqCount, hooks, released, shown, apiVars,
                   today, cw_out, startup>>

\* End of the interpreter shutdown.
Terminate(p) ==
    /\ pc[p] = "exiting"
    /\ Gone(p, exitStatus[p])

\* The process is killed by a signal Python does not handle (SIGTERM,
\* SIGKILL, TerminateProcess): no exit hook runs.
Signal(p) ==
    /\ pc[p] \notin {"start", "terminated"}
    /\ Gone(p, "killed")

\* ------------------------------------------------- show_path_warning
\* check_startup_path(): either the registered path is valid and the thread
\* ends, or the "Path Changed" dialog is displayed.
PathCheck(p) ==
    /\ ppc[p] = "check"
    /\ \E valid \in BOOLEAN :
         ppc' = [ppc EXCEPT ![p] = IF valid THEN "done" ELSE "dialog"]
    /\ UNCHANGED <<sockVars, runVars, shown, lpc, refresh, icon, winVars, apiVars, extVars>>

\* The user answers the dialog; the thread ends.
PathAnswer(p) ==
    /\ ppc[p] = "dialog"
    /\ ppc' = [ppc EXCEPT ![p] = "done"]
    /\ UNCHANGED <<sockVars, runVars, shown, lpc, refresh, icon, winVars, apiVars, extVars>>

\* ------------------------------------------------ autostart registration
\* is_in_startup(): an entry (registry value, LaunchAgent plist or .desktop
\* file) exists.
is_in_startup(s) == s # "absent"

\* The entry after add_to_startup(); ok: the write succeeded and the
\* function returns True, otherwise the exception is caught and it returns
\* False.
after_add(s, ok) == IF ok THEN "current" ELSE s

\* The entry after remove_from_startup(), likewise.
after_remove(s, ok) == IF ok THEN "absent" ELSE s

\* check_startup_path()[0]: no entry, or the entry names the running executable.
path_is_valid(s) == s # "moved"

\* What toggle_startup does with the result of add/remove: the call is a
\* bare expression statement, so a False result displays nothing.
toggle_reports_failure_shown(ok) == ~ok

toggle_reports_failure(ok) == FALSE

\* toggle_startup(): the "Start at Login" menu item.
ToggleStartup(p) ==
    /\ pc[p] = "running"
    /\ \E ok \in BOOLEAN :
         /\ startup' = IF is_in_startup(startup) THEN after_remove(startup, ok)
                        ELSE after_add(startup, ok)
         /\ toggled' = [toggled EXCEPT ![p] = IF ok THEN "ok" ELSE "failed"]
         /\ failure_dialogs' =
                IF toggle_reports_failure(ok)
                THEN [failure_dialogs EXCEPT ![p] = @ \cup {"toggle"}]
                ELSE failure_dialogs
    /\ UNCHANGED <<sockVars, runVars, shown, thrVars, winVars, apiVars, today, cw_out,
                   refVars, recv_data>>

\* show_path_warning(), with the registration it reads: check_startup_path().
PathWarnCheck(p) ==
    /\ ppc[p] = "check"
    /\ ppc' = [ppc EXCEPT ![p] = IF path_is_valid(startup) THEN "done" ELSE "dialog"]
    /\ UNCHANGED <<sockVars, runVars, shown, lpc, refresh, icon, winVars, apiVars,
                   extVars>>

\* show_path_warning(): the user answers askyesno.  On yes fix_startup_path()
\* runs remove_from_startup() (result dropped) and add_to_startup(), and
\* showinfo("Success") or showerror("Error") is displayed.
PathWarnAnswer(p) ==
    /\ ppc[p] = "dialog"
    /\ \E yes, rm_ok, add_ok \in BOOLEAN :
         IF yes
         THEN /\ startup' = after_add(after_remove(startup, rm_ok), add_ok)
              /\ ppc' = [ppc EXCEPT ![p] = IF add_ok THEN "info" ELSE "error"]
              /\ failure_dialogs' =
                     IF add_ok THEN failure_dialogs
                     ELSE [failure_dialogs EXCEPT ![p] = @ \cup {"pathfix"}]
         ELSE /\ ppc' = [ppc EXCEPT ![p] = "done"]
              /\ UNCHANGED <<startup, failure_dialogs>>
    /\ UNCHANGED <<sockVars, runVars, shown, lpc, refresh, icon, winVars, apiVars,
                   today, cw_out, refVars, toggled, recv_data>>

\* show_path_warning(): the message box is dismissed; root.destroy().
PathWarnDismiss(p) ==
    /\ ppc[p] \in {"info", "error"}
    /\ ppc' = [ppc EXCEPT ![p] = "done"]
    /\ UNCHANGED <<sockVars, runVars, shown, lpc, refresh, icon, winVars, apiVars,
                   extVars>>

\* ------------------------------------------------------- show_calendar
\* The window created by thread t exists (from tk.Tk() to root.destroy()).
Live(p, t) == tpc[p][t] \in {"record", "mainloop", "destroy"}

Windows(p) == {t \in Threads : Live(p, t)}

\* `if calendar_window is not None:`
window_exists_never(cw) == FALSE

window_exists(cw) == cw # None

\* threading.Thread(target=show_calendar, daemon=True).start(): the new
\* thread takes the lowest free slot (threads are interchangeable).
FreeThreads(p) ==
    LET free == {t \in Threads : tpc[p][t] = "idle"}
    IN  {t \in free : \A u \in free : t <= u}

\* open_calendar(): the tray click / "Open Calendar" menu item.
OpenCalendar(p) ==
    /\ pc[p] = "running"
    /\ \E t \in FreeThreads(p) : tpc' = [tpc EXCEPT ![p][t] = "check"]
    /\ UNCHANGED <<sockVars, runVars, shown, thrVars, calendar_window, raised, apiVars, extVars>>

\* show_calendar(), first `with window_lock:` block: raise the recorded
\* window and return, or forget a destroyed one (TclError), or go on.
ShowCheck(p, t) ==
    /\ tpc[p][t] = "check"
    /\ LET cw == calendar_window[p]
       IN  IF window_exists(cw)
           THEN IF Live(p, cw)
                THEN /\ raised' = [raised EXCEPT ![p] = cw]
                     /\ tpc' = [tpc EXCEPT ![p][t] = "idle"]
                     /\ UNCHANGED calendar_window
                ELSE /\ calendar_window' = [calendar_window EXCEPT ![p] = None]
                     /\ tpc' = [tpc EXCEPT ![p][t] = "create"]
                     /\ UNCHANGED raised
           ELSE /\ tpc' = [tpc EXCEPT ![p][t] = "create"]
                /\ UNCHANGED <<calendar_window, raised>>
    /\ UNCHANGED <<sockVars, runVars, shown, thrVars, apiVars, extVars>>

\* show_calendar(): root = tk.Tk() and the window icon, outside the lock.
ShowCreate(p, t) ==
    /\ tpc[p][t] = "create"
    /\ tpc' = [tpc EXCEPT ![p][t] = "record"]
    /\ UNCHANGED <<sockVars, runVars, shown, thrVars, calendar_window, raised, apiVars, extVars>>

\* show_calendar(), second `with window_lock:` block: calendar_window = root;
\* then the widgets are built, the window is raised and mainloop() entered.
ShowRecord(p, t) ==
    /\ tpc[p][t] = "record"
    /\ calendar_window' = [calendar_window EXCEPT ![p] = t]
    /\ tpc' = [tpc EXCEPT ![p][t] = "mainloop"]
    /\ UNCHANGED <<sockVars, runVars, shown, thrVars, raised, apiVars, extVars>>

\* on_close() (Escape or the close button), its `with window_lock:` block:
\* calendar_window = None.
OnCloseClear(p, t) ==
    /\ tpc[p][t] = "mainloop"
    /\ calendar_window' = [calendar_window EXCEPT ![p] = None]
    /\ tpc' = [tpc EXCEPT ![p][t] = "destroy"]
    /\ UNCHANGED <<sockVars, runVars, shown, thrVars, raised, apiVars, extVars>>

\* on_close(): root.destroy(); mainloop() returns and the thread ends.
OnCloseDestroy(p, t) ==
    /\ tpc[p][t] = "destroy"
    /\ tpc' = [tpc EXCEPT ![p][t] = "idle"]
    /\ raised' = [raised EXCEPT ![p] = IF @ = t THEN None ELSE @]
    /\ UNCHANGED <<sockVars, runVars, shown, thrVars, calendar_window, apiVars, extVars>>

\* --------------------------------------------- listen_for_new_instances
\* `if data == b'SHOW':`
is_show_never(data) == FALSE

\* A comparison that accepts any payload starting with SHOW.
is_show_prefix(data) == data \in {"SHOW", "SHOWX"}

is_show(data) == data = SHOW

\* Where the listener goes after threading.Thread(...).start() (or after a
\* payload that starts nothing): back to the top of its loop, without
\* joining the thread it started.
after_spawn_join(started) == IF started THEN "join" ELSE "top"

after_spawn(started) == "top"

\* Top of the loop: leave when LOCK_SOCKET is None, else call accept().
ListenerTop(p) ==
    /\ lpc[p] = "top"
    /\ lpc' = [lpc EXCEPT ![p] = IF LOCK_SOCKET[p] = None THEN "done" ELSE "accept"]
    /\ UNCHANGED <<sockVars, runVars, shown, ppc, refresh, icon, winVars, apiVars, extVars>>

\* accept() returns a connection; recv, close, and start show_calendar on a
\* new thread when the payload is SHOW.  A listening socket whose descriptor
\* was closed during the accept goes away once the call has returned.
ListenerAccept(p) ==
    /\ lpc[p] = "accept"
    /\ queue[p] # <<>>
    /\ LET conn == Head(queue[p])
           rest == Tail(queue[p])
           fdClosed == LOCK_SOCKET[p] = None
           fromInst == conn.from \in Procs
           left == IF fdClosed THEN NoteAfterDrop(note, rest) ELSE note
       IN  /\ IF is_show(conn.data)
              THEN /\ \E t \in FreeThreads(p) : tpc' = [tpc EXCEPT ![p][t] = "check"]
                   /\ shown' = IF fromInst THEN [shown EXCEPT ![conn.from] = @ + 1]
                                ELSE shown
              ELSE UNCHANGED <<tpc, shown>>
           /\ queue' = [queue EXCEPT ![p] = IF fdClosed THEN <<>> ELSE rest]
           /\ note' = IF fromInst THEN [left EXCEPT ![conn.from] = "accepted"] ELSE left
           /\ bound' = IF fdClosed THEN bound \ BoundOf(p) ELSE bound
    /\ recv_data' = [recv_data EXCEPT ![p] = Head(queue[p]).data]
    /\ lpc' = [lpc EXCEPT ![p] = after_spawn(is_show(Head(queue[p]).data))]
    /\ UNCHANGED <<LOCK_SOCKET, nsock, heard, runVars, ppc, refresh, icon,
                   calendar_window, raised, apiVars, today, cw_out, refVars, suVars>>

\* A local program that is not an instance of the application (sender 0)
\* connects to the port held by q, sends `data` and closes.
Payloads == {"SHOW", "", "SHO", "SHOWX", "PING"}

ClientSend(q, data) ==
    /\ q \in ConnectTargets
    /\ queue' = [queue EXCEPT ![q] = Append(@, [from |-> 0, data |-> data])]
    /\ UNCHANGED <<LOCK_SOCKET, nsock, bound, note, heard, runVars, shown, thrVars,
                   winVars, apiVars, extVars>>

\* ---------------------------------------------------- start_auto_refresh
\* refresh_loop(): last_cw = current_cw()
RefreshInit(p) ==
    /\ rpc[p] = "init"
    /\ last_cw' = [last_cw EXCEPT ![p] = current_cw(today)]
    /\ rpc' = [rpc EXCEPT ![p] = "check"]
    /\ UNCHANGED <<sockVars, runVars, shown, thrVars, winVars, apiVars, today, cw_out,
                   icon_face, wrote, suVars, recv_data>>

\* `while icon.visible:` : icon.visible is False from Icon(...) until
\* icon.run() has shown the icon, and False again after icon.stop().
icon_visible(i) == i = "visible"

RefreshCheck(p) ==
    /\ rpc[p] = "check"
    /\ rpc' = [rpc EXCEPT ![p] = IF icon_visible(icon[p]) THEN "sleep" ELSE "done"]
    /\ UNCHANGED <<sockVars, runVars, shown, thrVars, winVars, apiVars, today, cw_out,
                   last_cw, icon_face, wrote, suVars, recv_data>>

\* `if new_cw != last_cw:`
week_changed(new_cw, last) == new_cw # last

\* One tick: time.sleep(interval) returns, new_cw = current_cw(), and the
\* icon image, its title and last_cw are assigned when the week changed.
RefreshTick(p) ==
    /\ rpc[p] = "sleep"
    /\ LET new_cw == current_cw(today)
       IN  IF week_changed(new_cw, last_cw[p])
           THEN /\ icon_face' = [icon_face EXCEPT ![p] = [icon |-> new_cw, title |-> new_cw]]
                /\ last_cw' = [last_cw EXCEPT ![p] = new_cw]
                /\ wrote' = [wrote EXCEPT ![p] = "yes"]
           ELSE /\ wrote' = [wrote EXCEPT ![p] = "no"]
                /\ UNCHANGED <<icon_face, last_cw>>
    /\ rpc' = [rpc EXCEPT ![p] = "check"]
    /\ UNCHANGED <<sockVars, runVars, shown, thrVars, winVars, apiVars, today, cw_out,
                   suVars, recv_data>>

\* Midnight: the system date moves to the next day.
Midnight ==
    /\ toordinal(today) < toordinal(StartDay) + MaxDays
    /\ today' = next_day(today)
    /\ UNCHANGED <<sockVars, runVars, shown, thrVars, winVars, apiVars, cw_out, refVars,
                   suVars, recv_data>>

\* ------------------------------------------------------- specification
Alive(p) == pc[p] \notin {"start", "terminated"}

\* The steps of process p outside its show_calendar threads.
InstStep(p) ==
    \/ RunAcquire(p)
    \/ RunNotify(p)
    \/ RunSysExit(p)
    \/ RunRegister(p)
    \/ RunStartPathCheck(p)
    \/ RunCreateIcon(p)
    \/ RunStartListener(p)
    \/ RunStartRefresh(p)
    \/ RunIconRun(p)
    \/ MenuExit(p)
    \/ AtExit(p)
    \/ Terminate(p)
    \/ Signal(p)
    \/ PathCheck(p)
    \/ PathAnswer(p)
    \/ OpenCalendar(p)
    \/ ListenerTop(p)
    \/ ListenerAccept(p)

\* The steps of the show_calendar threads of process p.
WinStep(p) ==
    \E t \in Threads :
        \/ ShowCheck(p, t)
        \/ ShowCreate(p, t)
        \/ ShowRecord(p, t)
        \/ OnCloseClear(p, t)
        \/ OnCloseDestroy(p, t)

\* The whole system: every process, every thread.
Next == \E p \in Procs : InstStep(p) \/ WinStep(p)

Spec == Init /\ [][Next]_vars

\* The instances among themselves: start-up, lock, notification, listener
\* and exit of every process; the show_calendar threads are started but
\* their bodies are left to SpecWin.
NextInst == \E p \in Procs : InstStep(p)

SpecInst == Init /\ [][NextInst]_vars

\* One instance and its calendar windows: process 1 alone runs run(), with
\* the threads the tray clicks start.  (Nothing connects to a lone instance.)
NextWin ==
    \/ RunAcquire(1)
    \/ RunRegister(1)
    \/ RunStartPathCheck(1)
    \/ RunCreateIcon(1)
    \/ RunStartListener(1)
    \/ RunStartRefresh(1)
    \/ RunIconRun(1)
    \/ MenuExit(1)
    \/ AtExit(1)
    \/ Terminate(1)
    \/ Signal(1)
    \/ PathCheck(1)
    \/ PathAnswer(1)
    \/ OpenCalendar(1)
    \/ ListenerTop(1)
    \/ WinStep(1)

SpecWin == Init /\ [][NextWin]_vars

\* ------------------------------------------------------------- SpecApi
\* The guard's functions called from outside run(), in any order.
Called(op, p, ret) ==
    /\ ncalls < MaxCalls
    /\ ncalls' = ncalls + 1
    /\ prevOp' = lastOp
    /\ lastOp' = [op |-> op, proc |-> p, ret |-> ret]

ApiAcquire(p) ==
    /\ acquire_single_instance_lock(p)
    /\ Called("acquire", p, acqRet'[p])
    /\ UNCHANGED <<pc, acqCount, hooks, released, exitStatus, shown, thrVars, winVars,
                   extVars>>

\* ret: whether the call found LOCK_SOCKET set (and closed it).
ApiRelease(p) ==
    /\ \E linger \in BOOLEAN : release_single_instance_lock(p, linger)
    /\ Called("release", p, IF LOCK_SOCKET[p] # None THEN "closed" ELSE "noop")
    /\ UNCHANGED <<pc, acqRet, acqCount, hooks, exitStatus, shown, ppc, refresh, icon, winVars,
                   extVars>>

\* ret: "raised" if an exception left the function.
ApiNotify(p) ==
    /\ LET connected == ConnectTargets # {}
       IN  IF notify_raises(connected)
           THEN /\ Called("notify", p, "raised")
                /\ UNCHANGED <<queue, note, heard>>
           ELSE /\ notify_existing_instance(p)
                /\ Called("notify", p, "returned")
    /\ UNCHANGED <<LOCK_SOCKET, nsock, bound, runVars, shown, thrVars, winVars, extVars>>

NextApi ==
    \E p \in Procs :
        \/ ApiAcquire(p)
        \/ ApiRelease(p)
        \/ ApiNotify(p)

SpecApi == Init /\ [][NextApi]_vars

\* ------------------------------------------------------------ SpecWeek
\* current_cw() called on any day of the years FirstYear..FirstYear+NYears-1.
InitWeek ==
    /\ InitProgram
    /\ today \in Dates
    /\ startup = "absent"

CurrentCw ==
    /\ cw_out = 0
    /\ cw_out' = current_cw(today)
    /\ UNCHANGED <<sockVars, runVars, shown, thrVars, winVars, apiVars, today, refVars,
                   suVars, recv_data>>

NextWeek == CurrentCw

SpecWeek == InitWeek /\ [][NextWeek]_vars

\* --------------------------------------------------------- SpecRefresh
\* One instance from start-up to exit, its refresh worker, and the days
\* passing.
NextRefresh ==
    \/ RunAcquire(1)
    \/ RunRegister(1)
    \/ RunStartPathCheck(1)
    \/ RunCreateIcon(1)
    \/ RunStartListener(1)
    \/ RunStartRefresh(1)
    \/ RunIconRun(1)
    \/ MenuExit(1)
    \/ AtExit(1)
    \/ Terminate(1)
    \/ RefreshInit(1)
    \/ RefreshCheck(1)
    \/ RefreshTick(1)
    \/ Midnight

SpecRefresh == Init /\ [][NextRefresh]_vars

\* --------------------------------------------------------- SpecStartup
\* One instance, started with any autostart entry left by earlier sessions,
\* its show_path_warning thread and the "Start at Login" menu item.
InitStartup ==
    /\ InitProgram
    /\ today = StartDay
    /\ startup \in StartupStates

NextStartup ==
    \/ RunAcquire(1)
    \/ RunRegister(1)
    \/ RunStartPathCheck(1)
    \/ RunCreateIcon(1)
    \/ RunStartListener(1)
    \/ RunStartRefresh(1)
    \/ RunIconRun(1)
    \/ MenuExit(1)
    \/ AtExit(1)
    \/ Terminate(1)
    \/ PathWarnCheck(1)
    \/ PathWarnAnswer(1)
    \/ PathWarnDismiss(1)
    \/ ToggleStartup(1)

SpecStartup == InitStartup /\ [][NextStartup]_vars

\* ------------------------------------------------------------ SpecShow
\* One instance, its listener and the show_calendar threads it starts, with
\* local programs connecting to the port and sending any payload.
NextShow ==
    \/ RunAcquire(1)
    \/ RunRegister(1)
    \/ RunStartPathCheck(1)
    \/ RunCreateIcon(1)
    \/ RunStartListener(1)
    \/ RunStartRefresh(1)
    \/ RunIconRun(1)
    \/ MenuExit(1)
    \/ AtExit(1)
    \/ Terminate(1)
    \/ ListenerTop(1)
    \/ ListenerAccept(1)
    \/ \E data \in Payloads : ClientSend(1, data)
    \/ WinStep(1)

SpecShow == Init /\ [][NextShow]_vars

\* ================================================================ claims
\* The process serves the tray icon: icon.run() is showing it.
Serving(p) == pc[p] = "running" /\ icon[p] = "visible"

\* The process shows some UI: the tray icon, the path-warning dialog or a
\* calendar window.
ShowsUI(p) ==
    icon[p] = "visible" \/ ppc[p] \in {"dialog", "info", "error"} \/ Windows(p) # {}

\* C1: in every reachable state at most one process holds the instance lock
\* (owns a socket bound to 127.0.0.1:47200) and at most one process is
\* serving the tray icon.
C1_SingleInstance ==
    /\ Cardinality(Holders) <= 1
    /\ Cardinality({p \in Procs : Serving(p)}) <= 1

\* C1 witness: one process holds the lock and serves the tray after another
\* process ran the start-up sequence and was turned away.
C1_Witness ==
    \E p, q \in Procs : p # q /\ Holds(p) /\ Serving(p) /\ acqRet[q] = "False"

\* C2 (as claimed): no two show_calendar calls of one process have both seen
\* "no window" and each created a window: at most one calendar window is
\* open (created and not being closed) at a time.
C2_AtMostOneWindow ==
    \A p \in Procs : Cardinality({t \in Threads : tpc[p][t] \in {"record", "mainloop"}}) <= 1

\* C3: a show_calendar request that finds a recorded, open window creates no
\* window: it raises that window and returns, leaving the set of windows (and
\* so a single window) and the handle as they were.
C3_SecondRequestFocuses ==
    [][\A p \in Procs, t \in Threads :
         (/\ tpc[p][t] = "check"
          /\ tpc'[p][t] # "check"
          /\ pc'[p] # "terminated"
          /\ calendar_window[p] # None
          /\ Live(p, calendar_window[p]))
         => (/\ tpc'[p][t] = "idle"
             /\ raised'[p] = calendar_window[p]
             /\ calendar_window'[p] = calendar_window[p]
             /\ {u \in Threads : tpc'[p][u] \in {"record", "mainloop", "destroy"}} = Windows(p))]_vars

\* C3 witness: a repeated request has raised the one open window and
\* returned; exactly one window is live and no request is in progress.
C3_Witness ==
    \E p \in Procs :
        /\ raised[p] # None
        /\ raised[p] = calendar_window[p]
        /\ Windows(p) = {raised[p]}
        /\ \A t \in Threads : tpc[p][t] \in {"idle", "mainloop"}

\* C4 (as claimed): of two acquire calls in sequence with no release in
\* between, the first returning True, the second returns False.
C4_SecondAcquireFails ==
    (prevOp.op = "acquire" /\ prevOp.ret = "True" /\ lastOp.op = "acquire")
        => lastOp.ret = "False"

C6_ReleaseIdempotent ==
    [][(ncalls' # ncalls /\ lastOp'.op = "release")
         => LET p == lastOp'.proc
            IN  /\ lastOp'.ret \in {"closed", "noop"}
                /\ LOCK_SOCKET'[p] = None
                /\ {s \in bound' : s[1] = p} = {}
                /\ (LOCK_SOCKET[p] = None
                      => UNCHANGED <<LOCK_SOCKET, nsock, bound, queue, note, heard>>)]_vars

\* C6 witness: the holder released twice in a row.
C6_Witness ==
    /\ prevOp.op = "release" /\ prevOp.ret = "closed"
    /\ lastOp.op = "release" /\ lastOp.ret = "noop"
    /\ lastOp.proc = prevOp.proc

\* C7 (as claimed): a notification sent to an instance that holds the lock
\* and has started its listener starts the show-calendar callback exactly
\* once: when it is no longer waiting in the accept queue, the callback was
\* started once, never zero times.
C7_ExactlyOnce ==
    \A b \in Procs : (heard[b] /\ note[b] # "queued") => shown[b] = 1

\* C7 (amended): the callback is started at most once per notification, and
\* exactly once for the notifications whose connection the listener accepts.
C7_AtMostOnce ==
    \A b \in Procs :
        /\ shown[b] <= 1
        /\ (note[b] = "accepted") <=> (shown[b] = 1)

\* C7 witness: B was turned away, notified, and A's listener started the
\* callback for it.
C7_Witness ==
    \E a, b \in Procs :
        /\ a # b /\ Holds(a) /\ lpc[a] # "none"
        /\ acqRet[b] = "False" /\ heard[b] /\ note[b] = "accepted" /\ shown[b] = 1

\* C8: a redundant process never ends with an uncaught exception from the
\* notification: once past notify_existing_instance its exit status is 0
\* (unless a signal killed it), whether or not the signal was delivered.
C8_NotifyNeverRaises ==
    \A p \in Procs :
        acqRet[p] = "False"
            => /\ exitStatus[p] # "1"
               /\ pc[p] \in {"exiting", "terminated"} => exitStatus[p] \in {"0", "killed"}

\* C8 witness: the active instance was gone when the redundant process
\* connected; the redundant process still ended with status 0.
C8_Witness ==
    \E p \in Procs :
        acqRet[p] = "False" /\ note[p] = "refused" /\ pc[p] = "terminated" /\ exitStatus[p] = "0"

\* Start-up order, the part C9 gets right: acquire is called at most once and
\* before anything else; a process that has not acquired has no tray icon,
\* listener, refresh worker, path check, calendar thread or window; a process
\* whose acquire returned False only notifies and terminates.
StartupOrder ==
    \A p \in Procs :
        /\ acqCount[p] <= 1
        /\ (acqCount[p] = 0) <=> (pc[p] = "start")
        /\ acqRet[p] # "True"
             => /\ icon[p] = "none" /\ lpc[p] = "none" /\ ppc[p] = "none"
                /\ ~refresh[p] /\ ~hooks[p]
                /\ \A t \in Threads : tpc[p][t] = "idle"
        /\ acqRet[p] = "False"
             => pc[p] \in {"notify", "sysexit", "atexit", "exiting", "terminated"}

\* C9 (as claimed): the start-up order, and a process shows UI only while it
\* holds the lock.
C9_UIOnlyWhileHolding ==
    /\ StartupOrder
    /\ \A p \in Procs : ShowsUI(p) => Holds(p)

\* C9 (amended): the start-up order, and a process shows UI (or has a
\* show_calendar thread that can create a window) only after its acquire
\* returned True.
C9_UIOnlyAfterAcquire ==
    /\ StartupOrder
    /\ \A p \in Procs :
         (ShowsUI(p) \/ \E t \in Threads : tpc[p][t] # "idle") => acqRet[p] = "True"

\* C9 witness: one process shows UI while a process whose acquire returned
\* False has notified and terminated.
C9_Witness ==
    \E p, q \in Procs :
        /\ ShowsUI(p) /\ acqRet[p] = "True"
        /\ acqRet[q] = "False" /\ pc[q] = "terminated" /\ note[q] # "none"

\* C10 (as claimed): no active instance that registered the exit hook is
\* gone without release_single_instance_lock having been invoked.
C10_ReleaseOnEveryExit ==
    \A p \in Procs :
        (pc[p] = "terminated" /\ acqRet[p] = "True" /\ hooks[p]) => released[p]

\* C11: on every tick of refresh_loop the icon image and title are assigned
\* exactly when the week just computed differs from last_cw (nothing is
\* assigned otherwise; image, title and last_cw all get the new week when it
\* does), and after the tick last_cw is the week the icon shows.
C11_TickKeepsIconInStep ==
    [][\A p \in Procs :
          (rpc[p] = "sleep" /\ rpc'[p] = "check") =>
              LET new_cw == isocalendar_week(today)
                  differs == new_cw # last_cw[p]
              IN  /\ (wrote'[p] = "yes") <=> differs
                  /\ differs => /\ icon_face'[p] = [icon |-> new_cw, title |-> new_cw]
                                 /\ last_cw'[p] = new_cw
                  /\ ~differs => /\ icon_face'[p] = icon_face[p]
                                  /\ last_cw'[p] = last_cw[p]
                  /\ last_cw'[p] = icon_face'[p].icon
                  /\ last_cw'[p] = icon_face'[p].title]_vars

\* The ISO-8601 week number of a date, from the standard's definition: the
\* weeks run from Monday to Sunday, a week belongs to the year its Thursday
\* falls in, and week 1 is the week of that year's first Thursday.
IsoWeek(date) ==
    LET ord == toordinal(date)
        weekday == (ord - 1) % 7
        thursday == ord - weekday + 3
        jan1 == days_before_year(date.y) + 1
        yr == IF thursday < jan1 THEN date.y - 1
              ELSE IF thursday >= jan1 + days_in_year(date.y) THEN date.y + 1
              ELSE date.y
        nth == thursday - days_before_year(yr)
    IN  ((nth - 1) \div 7) + 1

\* C12: for every date the value of current_cw() is the ISO-8601 week number
\* of that date and lies in 1..53; 2024-01-01 gives 1 and 2024-12-31 gives 1.
C12_IsoWeekNumber ==
    cw_out # 0 =>
        /\ cw_out = IsoWeek(today)
        /\ cw_out \in 1..53
        /\ today = [y |-> 2024, d |-> 1] => cw_out = 1
        /\ today = [y |-> 2024, d |-> 366] => cw_out = 1

\* current_cw() has returned 1 on 2024-12-31.
C12_Witness == today = [y |-> 2024, d |-> 366] /\ cw_out = 1

\* C13 as stated: a register/unregister failure in toggle_startup is shown
\* to the user in a dialog, and no other path displays an autostart failure.
C13_ToggleFailureShown ==
    \A p \in Procs :
        /\ toggled[p] = "failed" => "toggle" \in failure_dialogs[p]
        /\ "pathfix" \notin failure_dialogs[p]

\* C13, amended: toggle_startup displays nothing when register/unregister
\* fails (the result is dropped); the only dialog about an autostart failure
\* is the showerror of show_path_warning, displayed exactly when the
\* add_to_startup of fix_startup_path failed.
C13_FailureShownOnlyByPathFix ==
    \A p \in Procs :
        /\ "toggle" \notin failure_dialogs[p]
        /\ ppc[p] = "error" => "pathfix" \in failure_dialogs[p]
        /\ "pathfix" \in failure_dialogs[p] => ppc[p] \in {"error", "done"}

\* A toggle has failed with no dialog, after the path fix reported its failure.
C13_Witness == toggled[1] = "failed" /\ failure_dialogs[1] = {"pathfix"}

\* C14: the listener starts show_calendar on a thread of its own and does
\* not wait for it: whatever the show_calendar threads are doing (a window
\* open in mainloop included), the listener is at the top of its loop or in
\* accept, and a queued connection can be accepted at once.
C14_ListenerDoesNotWait ==
    \A p \in Procs :
        (Alive(p) /\ lpc[p] \notin {"none", "done"}) =>
            /\ lpc[p] \in {"top", "accept"}
            /\ lpc[p] = "top" => ENABLED ListenerTop(p)
            /\ (lpc[p] = "accept" /\ queue[p] # <<>> /\ FreeThreads(p) # {})
                   => ENABLED ListenerAccept(p)

\* The window of the first SHOW is open in mainloop, a second SHOW has been
\* accepted and its thread has raised that window, and the listener is back
\* in accept.
C14_Witness ==
    /\ tpc[1][1] = "mainloop"
    /\ raised[1] = 1
    /\ lpc[1] = "accept"

\* C15: once release_single_instance_lock has run (LOCK_SOCKET is None, the
\* socket closed) the listener loop ends, also when the listener was blocked
\* in accept at that moment: no listener stays blocked in accept after the
\* release.
C15_ListenerEndsAfterRelease ==
    \A p \in Procs :
        (Alive(p) /\ released[p] /\ LOCK_SOCKET[p] = None) => lpc[p] # "accept"

\* C16: while the instance runs (icon.run() is serving the tray icon) the
\* refresh worker is alive: it has not left its loop before the icon became
\* visible, however its first icon.visible check interleaves with icon.run().
C16_WorkerAliveWhileRunning ==
    \A p \in Procs : pc[p] = "running" => rpc[p] \in {"init", "check", "sleep"}

\* C17: a close clears calendar_window and destroys the window, so that when
\* the handle is None and no request or close is in progress no window is
\* live, and the next request creates the only window.
C17_NoWindowWhenHandleCleared ==
    \A p \in Procs :
        (/\ calendar_window[p] = None
         /\ \A t \in Threads : tpc[p][t] \in {"idle", "mainloop"})
            => Windows(p) = {}

\* C18: for every connection the listener accepts, a show_calendar thread is
\* started exactly when the bytes read are SHOW; any other payload starts
\* nothing; in both cases the connection is closed and the loop goes on.
C18_CallbackIffShow ==
    [][\A p \in Procs :
          (/\ lpc[p] = "accept"
           /\ queue[p] # <<>>
           /\ queue'[p] = Tail(queue[p])
           /\ pc'[p] = pc[p]) =>
              LET data == Head(queue[p]).data
                  started == {t \in Threads : tpc[p][t] = "idle" /\ tpc'[p][t] = "check"}
              IN  /\ data = "SHOW" => Cardinality(started) = 1
                  /\ data # "SHOW" => tpc'[p] = tpc[p]
                  /\ \A t \in Threads \ started : tpc'[p][t] = tpc[p][t]
                  /\ lpc'[p] = "top"
                  /\ LOCK_SOCKET'[p] = LOCK_SOCKET[p]]_vars

\* The listener has read SHOW followed by one more byte (no thread was
\* started for it) and is at the top of its loop with the lock still held.
C18_Witness ==
    /\ recv_data[1] = "SHOWX"
    /\ lpc[1] = "top"
    /\ Holds(1)
    /\ pc[1] = "running"
    /\ \A t \in Threads : tpc[1][t] = "idle"
====
